---- MODULE Spec2Model ----
(***************************************************************************)
(* Model of src/bot.py: the Telegram study-assistant bot.                  *)
(*                                                                         *)
(* State: context.user_data of every user (the stored "mode"), the handler *)
(* coroutines that are suspended at an await, and the record of the        *)
(* handler invocation that finished most recently (its replies, its calls  *)
(* of call_generative_model, the exception it let escape).                 *)
(* Python strings are TLA+ strings; None is the string None below.         *)
(***************************************************************************)
EXTENDS Integers, Sequences, FiniteSets, TLC

VARIABLES env, user_data, tasks, last

vars == <<env, user_data, tasks, last>>

(***************************************************************************)
(* Bounds of the model.                                                    *)
(***************************************************************************)
MaxUsers == 2
MaxInFlight == 1
MaxPages == 2

Users == 1..MaxUsers
Slots == 1..MaxInFlight

(***************************************************************************)
(* Python values and string helpers.                                       *)
(***************************************************************************)
None == "<None>"

\* Python truthiness of an Optional[str]
Truthy(v) == v # None /\ v # ""

\* a or b
Or(a, b) == IF Truthy(a) THEN a ELSE b

\* str(v) inside an f-string
Str(v) == IF v = None THEN "None" ELSE v

StartsWith(s, p) == Len(s) >= Len(p) /\ SubSeq(s, 1, Len(p)) = p

EndsWith(s, p) == Len(s) >= Len(p) /\ SubSeq(s, Len(s) - Len(p) + 1, Len(s)) = p

\* sub in s
Contains(s, sub) == \E i \in 1..(Len(s) - Len(sub) + 1) : SubSeq(s, i, i + Len(sub) - 1) = sub

\* s[:n]
Take(s, n) == IF Len(s) <= n THEN s ELSE SubSeq(s, 1, n)

\* str.lower() of one character (file names are taken to be ASCII)
UpperLetters == "ABCDEFGHIJKLMNOPQRSTUVWXYZ"

LowerLetters == "abcdefghijklmnopqrstuvwxyz"

LowerTable ==
    [c \in {SubSeq(UpperLetters, k, k) : k \in 1..Len(UpperLetters)} |->
        LET k == CHOOSE k \in 1..Len(UpperLetters) : SubSeq(UpperLetters, k, k) = c
        IN SubSeq(LowerLetters, k, k)]

LowerChar(c) == IF c \in DOMAIN LowerTable THEN LowerTable[c] ELSE c

RECURSIVE Lower(_)
Lower(s) == IF s = "" THEN "" ELSE LowerChar(SubSeq(s, 1, 1)) \o Lower(SubSeq(s, 2, Len(s)))

\* sep.join(parts)
RECURSIVE Join(_, _)
Join(parts, sep) ==
    IF parts = <<>> THEN ""
    ELSE IF Len(parts) = 1 THEN parts[1]
    ELSE parts[1] \o sep \o Join(Tail(parts), sep)

(***************************************************************************)
(* Inputs.                                                                 *)
(***************************************************************************)
Modes == {"flashcards", "notes", "quiz"}

\* query.data of a callback query: the three buttons of the keyboard, any
\* other string a client sends, or None (a callback query without data)
CallbackData == Modes \cup {"junk", None}

\* update.message.text of a non-command text message
Texts == {"Photosynthesis"}

MimeTypes == {"application/pdf", None}

FileNames == {"a.PDF", "a.txt"}

\* "edited_message": an update whose update.message is None
Messages ==
    [kind : {"text"}, text : Texts, mime : {None}, file_name : {None}]
    \cup [kind : {"photo", "other", "edited_message"}, text : {None}, mime : {None}, file_name : {None}]
    \cup [kind : {"document"}, text : {None}, mime : MimeTypes, file_name : FileNames]

\* what the generative backend does with one request: it returns the text
\* value or raises an exception whose message is value
BackendOutcomes == [raises : BOOLEAN, value : {"generated"}]

\* the backend is not asked
NoBackend == [raises |-> FALSE, value |-> None]

\* what one run of an extraction helper meets: the step that raises ("none"
\* when every step returns), the exception message, the OCR text of the image,
\* the results of page.extract_text() of the pages of the PDF, and whether
\* os.remove in the finally block returns or raises (it is not reached when
\* get_file raises)
NoOutcome == [step |-> "n/a", value |-> None, pages |-> <<>>, remove |-> "n/a"]

RemoveOutcomes == {"ok", "raises"}

OcrOutcomes ==
    [step : {"get_file"}, value : {"boom"}, pages : {<<>>}, remove : {"n/a"}]
    \cup [step : {"download", "ocr"}, value : {"boom"}, pages : {<<>>}, remove : RemoveOutcomes]
    \cup [step : {"none"}, value : {"", "Intro"}, pages : {<<>>}, remove : RemoveOutcomes]

\* page.extract_text() of one page: a text, None, or an exception
PageError == "<raise>"

PageResults == {"Intro", "More", "", None, PageError}

RECURSIVE SeqsUpTo(_, _)
SeqsUpTo(S, n) ==
    IF n = 0 THEN {<<>>}
    ELSE LET shorter == SeqsUpTo(S, n - 1)
         IN shorter \cup {Append(s, x) : s \in {t \in shorter : Len(t) = n - 1}, x \in S}

PdfFailures ==
    [step : {"get_file"}, value : {"boom"}, pages : {<<>>}, remove : {"n/a"}]
    \cup [step : {"download", "open"}, value : {"boom"}, pages : {<<>>}, remove : RemoveOutcomes]

\* the documents of the dispatcher's runs: a first page with text and any
\* number of pages without
PdfOutcomes ==
    PdfFailures
    \cup [step : {"none"}, value : {None},
          pages : {p \in SeqsUpTo({"Intro", ""}, MaxPages) :
                      \A k \in 1..Len(p) : (p[k] = "Intro") <=> (k = 1)},
          remove : RemoveOutcomes]

(***************************************************************************)
(* Handler invocations.                                                    *)
(***************************************************************************)
\* what webhook returns to the transport
OkTrue == "{\"ok\": true}"

OkFalse == "{\"ok\": false}"

\* response: what webhook returns once process_update has returned
NewTask(u, handler, kind) ==
    [user |-> u, handler |-> handler, kind |-> kind, pc |-> "start",
     mode |-> None, outcome |-> NoOutcome, text |-> None,
     replies |-> <<>>, calls |-> <<>>, raised |-> None, persisted |-> <<>>,
     prev |-> "none", tmp |-> "none", response |-> OkTrue, documents |-> <<>>]

Idle == [NewTask(0, "none", "none") EXCEPT !.pc = "idle"]

Reply(t, msg) == [t EXCEPT !.replies = Append(@, msg)]

\* for a mode tap: what the same user's handler that finished just before
\* this one did (kept for the scenarios of a tap that follows another event
\* of its session)
Previous(t) ==
    IF t.handler # "callback" \/ last.user # t.user THEN "none"
    ELSE IF last.calls # <<>> THEN "dispatch"
    ELSE IF last.handler = "callback" /\ t.handler = "callback" /\ last.mode = t.mode
         THEN "same callback"
    ELSE IF last.handler = "message" /\ last.kind # "edited_message" /\ ~Truthy(last.mode)
         THEN "content without mode"
    ELSE "none"

Done(t) == [t EXCEPT !.pc = "done", !.prev = Previous(t)]

FreeSlots == {i \in Slots : tasks[i].pc = "idle"}

\* the slot a new coroutine takes
NextSlot == CHOOSE i \in FreeSlots : \A j \in FreeSlots : i <= j

KeyboardPrompt == "Please choose how you'd like me to process your input:"

(***************************************************************************)
(* call_generative_model                                                   *)
(***************************************************************************)
ErrorPrefix == "(Generative model failed)"

\* the except branch returning the bare exception text
call_generative_model_unmarked(prompt, mode, backend) ==
    IF env.HAS_GENAI /\ Truthy(env.GEMINI_API_KEY)
    THEN backend.value
    ELSE IF mode = "flashcards"
         THEN "Flashcard 1: Q - What is Newton's first law? A - Inertia. \nFlashcard 2: Q - ... (fallback)."
    ELSE IF mode = "quiz"
         THEN "Quiz (fallback): 1) What is inertia? A) ... (fallback)."
    ELSE "Notes (fallback): This is a set of notes extracted from the input."

call_generative_model(prompt, mode, backend) ==
    IF env.HAS_GENAI /\ Truthy(env.GEMINI_API_KEY)
    THEN IF backend.raises
         THEN ErrorPrefix \o " " \o backend.value
         ELSE backend.value
    ELSE IF mode = "flashcards"
         THEN "Flashcard 1: Q - What is Newton's first law? A - Inertia. \nFlashcard 2: Q - ... (fallback)."
    ELSE IF mode = "quiz"
         THEN "Quiz (fallback): 1) What is inertia? A) ... (fallback)."
    ELSE "Notes (fallback): This is a set of notes extracted from the input."

\* the stored mode read again after the awaits instead of the local variable
Dispatch_rereading(t, prompt, backend) ==
    LET mode == user_data[t.user]
        model_response == call_generative_model(prompt, mode, backend)
        called == [t EXCEPT !.calls = Append(@, [prompt |-> prompt, mode |-> mode,
                                                   backend |-> backend, result |-> model_response])]
    IN Done(Reply(called, model_response))

\* the model called a second time for the same content
Dispatch_twice(t, prompt, backend) ==
    LET model_response == call_generative_model(prompt, t.mode, backend)
        call == [prompt |-> prompt, mode |-> t.mode, backend |-> backend, result |-> model_response]
    IN Done(Reply([t EXCEPT !.calls = @ \o <<call, call>>], model_response))

\* model_response = await call_generative_model(prompt, mode=mode);
\* await update.message.reply_text(model_response); return
Dispatch(t, prompt, backend) ==
    LET model_response == call_generative_model(prompt, t.mode, backend)
        called == [t EXCEPT !.calls = Append(@, [prompt |-> prompt, mode |-> t.mode,
                                                   backend |-> backend, result |-> model_response])]
    IN Done(Reply(called, model_response))

(***************************************************************************)
(* Initial state: the module has been imported, no update was processed.   *)
(***************************************************************************)
AllEnvs == [HAS_GENAI : BOOLEAN, GEMINI_API_KEY : {None, "key"},
            HAS_TESSERACT : BOOLEAN, HAS_PDFPLUMBER : BOOLEAN]

Missing(e) ==
    (IF e.HAS_GENAI THEN 0 ELSE 1) + (IF e.GEMINI_API_KEY = None THEN 1 ELSE 0)
    + (IF e.HAS_TESSERACT THEN 0 ELSE 1) + (IF e.HAS_PDFPLUMBER THEN 0 ELSE 1)

\* the deployments considered: at most one optional capability is missing
Envs == {e \in AllEnvs : Missing(e) <= 1}

Init ==
    /\ env \in Envs
    /\ user_data = [u \in Users |-> None]
    /\ tasks = [i \in Slots |-> Idle]
    /\ last = Idle

(***************************************************************************)
(* webhook with a payload that request.json() or Update.de_json rejects.   *)
(***************************************************************************)
MalformedPayloads == {"not JSON", "not an Update"}

\* no try around request.json() and Update.de_json
webhook_raising(payload) ==
    Done([NewTask(0, "webhook", payload) EXCEPT !.raised = payload, !.response = None])

webhook(payload) ==
    Done([NewTask(0, "webhook", payload) EXCEPT !.response = OkFalse])

WebhookMalformed(payload) ==
    /\ last' = webhook(payload)
    /\ UNCHANGED <<env, user_data, tasks>>

(***************************************************************************)
(* start_handler                                                           *)
(***************************************************************************)
StartCommand(u) ==
    /\ last' = Done(Reply(NewTask(u, "start", "command"), "Choose how you want me to process your input:"))
    /\ UNCHANGED <<env, user_data, tasks>>

(***************************************************************************)
(* callback_handler: "await query.answer()" precedes the only access to    *)
(* shared state, the write of user_data["mode"], so the handler takes      *)
(* effect in one step.                                                     *)
(***************************************************************************)
\* a handler that sends the content of an earlier message to the model
callback_handler_reusing(u, data) ==
    Dispatch([NewTask(u, "callback", "callback") EXCEPT !.mode = data, !.text = "earlier content"],
             "Mode: " \o Str(data) \o "\nUser text:\nearlier content", NoBackend)

callback_handler(u, data) ==
    LET choice == data
    IN Done(Reply([NewTask(u, "callback", "callback") EXCEPT !.mode = choice],
                  "Selected: " \o Str(choice) \o ". Now send me text, an image, or a PDF."))

\* a second tap of the stored mode switching it off
CallbackQuery_toggle(u, data) ==
    /\ user_data' = [user_data EXCEPT ![u] = IF @ = data THEN None ELSE data]
    /\ last' = callback_handler(u, data)
    /\ UNCHANGED <<env, tasks>>

\* the choice kept in one module-level variable instead of per user
CallbackQuery_shared(u, data) ==
    /\ user_data' = [v \in Users |-> data]
    /\ last' = callback_handler(u, data)
    /\ UNCHANGED <<env, tasks>>

CallbackQuery(u, data) ==
    /\ user_data' = [user_data EXCEPT ![u] = data]
    /\ last' = callback_handler(u, data)
    /\ UNCHANGED <<env, tasks>>

(***************************************************************************)
(* message_handler, up to its first extraction await or to its end.        *)
(***************************************************************************)
IsPdfDocument(mime, file_name) ==
    \/ Contains(Or(mime, ""), "pdf")
    \/ (Truthy(file_name) /\ EndsWith(Lower(file_name), ".pdf"))

\* the check of the stored mode left out
ModeMissing_never(mode) == FALSE

\* if not mode
ModeMissing(mode) == ~Truthy(mode)

\* the content is taken on to its extraction although no mode is stored
NoModeReply_keeping(t) == [Reply(t, KeyboardPrompt) EXCEPT !.pc = "ocr"]

\* the handler returns without the keyboard message
NoModeReply_silent(t) == Done(t)

\* if not mode: reply_text("Choose a mode first:", reply_markup=...); return
NoModeReply(t) == Done(Reply(t, KeyboardPrompt))

message_handler(u, msg, backend) ==
    LET mode == user_data[u]
        t == [NewTask(u, "message", msg.kind) EXCEPT !.mode = mode]
    IN IF msg.kind = "edited_message" THEN Done([t EXCEPT !.mode = None])
       ELSE IF ModeMissing(mode) THEN NoModeReply(t)
       ELSE IF Truthy(msg.text)
            THEN Dispatch([t EXCEPT !.text = msg.text],
                          "Mode: " \o Str(mode) \o "\nUser text:\n" \o msg.text, backend)
       ELSE IF msg.kind = "photo"
            THEN IF ~env.HAS_TESSERACT
                 THEN Done(Reply(t, "OCR is not available on this instance (pytesseract missing)."))
                 ELSE [Reply(t, "Received image. Downloading and running OCR...") EXCEPT !.pc = "ocr"]
       ELSE IF msg.kind = "document"
            THEN IF IsPdfDocument(msg.mime, msg.file_name)
                 THEN IF ~env.HAS_PDFPLUMBER
                      THEN Done(Reply(t, "PDF text extraction is not available on this instance (pdfplumber missing)."))
                      ELSE [Reply(t, "PDF received. Downloading and extracting text...") EXCEPT !.pc = "pdf"]
                 ELSE Done(Reply(t, "Document received but unsupported mime type for automatic processing."))
       ELSE Done(Reply(t, "I didn't understand that. Send text, an image, or a PDF."))

MessageReceive(u, msg, backend) ==
    LET t == message_handler(u, msg, backend)
    IN IF t.pc = "done"
       THEN /\ last' = t
            /\ UNCHANGED <<env, user_data, tasks>>
       ELSE /\ FreeSlots # {}
            /\ tasks' = [tasks EXCEPT ![NextSlot] = t]
            /\ UNCHANGED <<env, user_data, last>>

(***************************************************************************)
(* download_and_ocr and the rest of the photo branch.                      *)
(***************************************************************************)
\* finally: try: os.remove(tmp_path) except Exception: pass, on the file of
\* tempfile.NamedTemporaryFile; a raising os.remove leaves the file
os_remove(tmp, remove) == IF tmp = "exists" /\ remove = "ok" THEN "removed" ELSE tmp

\* the returned text, or the exception that leaves the helper, and what has
\* become of the temporary file ("none": it was never created)
download_and_ocr(o) ==
    IF o.step = "get_file" THEN [raised |-> o.value, text |-> None, tmp |-> "none"]
    ELSE IF o.step \in {"download", "ocr"}
         THEN [raised |-> None, text |-> "(OCR failed: " \o o.value \o ")",
               tmp |-> os_remove("exists", o.remove)]
    ELSE [raised |-> None, text |-> Or(o.value, "(no text found)"), tmp |-> os_remove("exists", o.remove)]

\* the await at which a helper learns that its run ends with the outcome o:
\* bot.get_file, file.download_to_drive or run_in_thread
AwaitOf(kind, o) ==
    IF o.step = "get_file" THEN kind
    ELSE IF o.step = "download" THEN kind \o "_download"
    ELSE kind \o "_thread"

\* an await of download_and_ocr returns and the helper goes on to its next
\* await: from get_file, past the creation of the temporary file, to
\* download_to_drive, and from there to run_in_thread
OcrAdvance(i) ==
    /\ tasks[i].pc \in {"ocr", "ocr_download"}
    /\ tasks' = [tasks EXCEPT ![i] = IF tasks[i].pc = "ocr"
                                      THEN [@ EXCEPT !.pc = "ocr_download", !.tmp = "exists"]
                                      ELSE [@ EXCEPT !.pc = "ocr_thread"]]
    /\ UNCHANGED <<env, user_data, last>>

\* the await that decides the run returns or raises, the helper ends, and
\* the handler goes on to its end
OcrComplete(i, o, backend) ==
    LET r == download_and_ocr(o)
        t == [tasks[i] EXCEPT !.outcome = o, !.tmp = r.tmp]
    IN /\ tasks[i].pc = AwaitOf("ocr", o)
       /\ last' = IF r.raised # None
                  THEN Done([t EXCEPT !.raised = r.raised])
                  ELSE Dispatch([t EXCEPT !.text = r.text],
                                "Mode: " \o Str(t.mode) \o "\nExtracted text from image:\n" \o r.text, backend)
       /\ tasks' = [tasks EXCEPT ![i] = Idle]
       /\ UNCHANGED <<env, user_data>>

(***************************************************************************)
(* download_and_extract_pdf and the rest of the PDF branch.                *)
(***************************************************************************)
\* txt = page.extract_text() or "", "" when the page raises
PageText(p) == IF p = PageError THEN "" ELSE Or(p, "")

\* the inner function extract(path)
extract(pages) ==
    LET text_parts == [k \in 1..Len(pages) |-> PageText(pages[k])]
    IN Join(text_parts, "\n\n")

download_and_extract_pdf(o) ==
    IF o.step = "get_file" THEN [raised |-> o.value, text |-> None, tmp |-> "none"]
    ELSE IF o.step \in {"download", "open"}
         THEN [raised |-> None, text |-> "(PDF extraction failed: " \o o.value \o ")",
               tmp |-> os_remove("exists", o.remove)]
    ELSE [raised |-> None, text |-> Or(extract(o.pages), "(no text extracted)"),
          tmp |-> os_remove("exists", o.remove)]

PromptLimit == 5000

\* an await of download_and_extract_pdf returns and the helper goes on to its
\* next await
PdfAdvance(i) ==
    /\ tasks[i].pc \in {"pdf", "pdf_download"}
    /\ tasks' = [tasks EXCEPT ![i] = IF tasks[i].pc = "pdf"
                                      THEN [@ EXCEPT !.pc = "pdf_download", !.tmp = "exists"]
                                      ELSE [@ EXCEPT !.pc = "pdf_thread"]]
    /\ UNCHANGED <<env, user_data, last>>

PdfComplete(i, o, backend) ==
    LET r == download_and_extract_pdf(o)
        t == [tasks[i] EXCEPT !.outcome = o, !.tmp = r.tmp]
    IN /\ tasks[i].pc = AwaitOf("pdf", o)
       /\ last' = IF r.raised # None
                  THEN Done([t EXCEPT !.raised = r.raised])
                  ELSE Dispatch([t EXCEPT !.text = r.text],
                                "Mode: " \o Str(t.mode) \o "\nExtracted text from PDF:\n" \o Take(r.text, PromptLimit), backend)
       /\ tasks' = [tasks EXCEPT ![i] = Idle]
       /\ UNCHANGED <<env, user_data>>

\* the backend outcomes a call of call_generative_model can meet
Backends == IF env.HAS_GENAI /\ Truthy(env.GEMINI_API_KEY) THEN BackendOutcomes ELSE {NoBackend}

\* a text message of a user with a stored mode calls the model at once
BackendsFor(u, m) == IF Truthy(user_data[u]) /\ Truthy(m.text) THEN Backends ELSE {NoBackend}

Next ==
    \/ \E u \in Users : StartCommand(u)
    \/ \E u \in Users, d \in CallbackData : CallbackQuery(u, d)
    \/ \E u \in Users, m \in Messages : \E b \in BackendsFor(u, m) : MessageReceive(u, m, b)
    \/ \E i \in Slots : OcrAdvance(i)
    \/ \E i \in Slots, o \in OcrOutcomes : \E b \in Backends : OcrComplete(i, o, b)
    \/ \E i \in Slots : PdfAdvance(i)
    \/ \E i \in Slots, o \in PdfOutcomes : \E b \in Backends : PdfComplete(i, o, b)
    \/ \E p \in MalformedPayloads : WebhookMalformed(p)

Spec == Init /\ [][Next]_vars

(***************************************************************************)
(* The PDF extraction on its own: user 1 has tapped a mode and sent a PDF,  *)
(* the dispatch is suspended at download_and_extract_pdf, and the document *)
(* has any pages.                                                          *)
(***************************************************************************)
PdfDocuments == [step : {"none"}, value : {None}, pages : SeqsUpTo(PageResults, MaxPages),
                 remove : RemoveOutcomes]

PdfInit ==
    /\ env \in {e \in Envs : Missing(e) = 0}
    /\ \E mode \in Modes :
          /\ user_data = [u \in Users |-> IF u = 1 THEN mode ELSE None]
          /\ tasks = [i \in Slots |-> IF i = 1
                                        THEN [Reply([NewTask(1, "message", "document") EXCEPT !.mode = mode],
                                                    "PDF received. Downloading and extracting text...")
                                              EXCEPT !.pc = "pdf"]
                                        ELSE Idle]
          /\ last = [Reply([NewTask(1, "callback", "callback") EXCEPT !.mode = mode],
                            "Selected: " \o mode \o ". Now send me text, an image, or a PDF.")
                      EXCEPT !.pc = "done"]

PdfNext ==
    \/ PdfAdvance(1)
    \/ \E o \in PdfDocuments \cup PdfFailures : \E b \in Backends : PdfComplete(1, o, b)

PdfSpec == PdfInit /\ [][PdfNext]_vars

(***************************************************************************)
(* Text messages answered by a backend that returns a short or a long      *)
(* text.                                                                   *)
(***************************************************************************)
InlineLimit == 1900

RECURSIVE Repeat(_, _)
Repeat(s, n) ==
    IF n = 0 THEN ""
    ELSE IF n % 2 = 0 THEN LET half == Repeat(s, n \div 2) IN half \o half
    ELSE s \o Repeat(s, n - 1)

\* a generated text one character over the limit
LongText == Repeat("x", InlineLimit + 1)

LongBackends == [raises : {FALSE}, value : {"generated", LongText}]

LongInit ==
    /\ env \in {e \in Envs : Missing(e) = 0}
    /\ user_data = [u \in Users |-> None]
    /\ tasks = [i \in Slots |-> Idle]
    /\ last = Idle

LongNext ==
    \/ \E u \in Users, d \in CallbackData : CallbackQuery(u, d)
    \/ \E u \in Users, m \in {x \in Messages : x.kind = "text"}, b \in LongBackends :
          MessageReceive(u, m, b)

LongSpec == LongInit /\ [][LongNext]_vars

(***************************************************************************)
(* Properties.                                                             *)
(***************************************************************************)
ContentKinds == {"text", "photo", "document"}

\* the extraction of the content of a finished message handler gave a text
ExtractionSucceeded(t) ==
    \/ t.kind = "text"
    \/ t.kind = "photo" /\ t.outcome.step = "none" /\ t.outcome.value # ""
    \/ t.kind = "document" /\ t.outcome.step = "none" /\ extract(t.outcome.pages) # ""

\* the extraction helper ran and failed or found no text
ExtractionEmpty(t) ==
    /\ t.kind \in {"photo", "document"}
    /\ t.outcome.step # "n/a"
    /\ ~ExtractionSucceeded(t)

IsErrorMarker(s) == StartsWith(s, ErrorPrefix)

\* C1: call_generative_model is called only by a message handler that handles
\* a content event while a mode selected earlier is stored and a text is at
\* hand, the call carries that mode, and a handler that finds no stored mode
\* makes no call; a suspended dispatch always holds a mode.
C1_DispatchNeedsContentAndMode ==
    /\ \A k \in 1..Len(last.calls) :
          /\ last.handler = "message"
          /\ last.kind \in ContentKinds
          /\ Truthy(last.mode)
          /\ last.mode \in CallbackData
          /\ last.calls[k].mode = last.mode
          /\ Truthy(last.text)
    /\ (last.handler = "message" /\ ~Truthy(last.mode) => last.calls = <<>>)
    /\ \A i \in Slots : tasks[i].pc # "idle" => Truthy(tasks[i].mode)

C1_Witness ==
    /\ last.handler = "message"
    /\ last.kind = "text"
    /\ Truthy(last.mode)
    /\ Len(last.calls) = 1

\* C2: no handler calls the model twice, and a message handler that found a
\* stored mode and whose content (text, OCR of a photo, text of a PDF) was
\* extracted calls it exactly once.
C2_DispatchExactlyOnce ==
    /\ Len(last.calls) <= 1
    /\ (last.handler = "message" /\ last.kind \in ContentKinds /\ Truthy(last.mode)
        /\ ExtractionSucceeded(last) => Len(last.calls) = 1)

C2_Witness ==
    /\ last.kind = "photo"
    /\ last.outcome.step = "none"
    /\ last.outcome.value = "Intro"
    /\ Len(last.calls) = 1

\* C3 (as claimed): a dispatch whose result is no error marker writes exactly
\* one record, of the user, the mode, the raw text and the generated text.
C3_DispatchPersistsOneRecord ==
    /\ Len(last.persisted) <= 1
    /\ \A k \in 1..Len(last.calls) :
          ~IsErrorMarker(last.calls[k].result) =>
              last.persisted = <<[user_id |-> last.user, task |-> last.mode,
                                  raw_text |-> last.text, result_text |-> last.calls[k].result]>>

\* C4: a mode selection never calls the model and uses no content; its one
\* reply tells the user to send content, and the handler is over.
C4_ModeTapNeverDispatches ==
    last.handler = "callback" =>
        /\ last.calls = <<>>
        /\ last.text = None
        /\ last.pc = "done"
        /\ Len(last.replies) = 1
        /\ EndsWith(last.replies[1], "Now send me text, an image, or a PDF.")

\* a mode tapped right after a dispatch of the same session
C4_Witness ==
    /\ last.handler = "callback"
    /\ last.prev = "dispatch"
    /\ Truthy(last.mode)

\* C5 (as claimed): when a dispatch has completed, the mode stored for its
\* session is cleared.
C5_ModeClearedAfterDispatch ==
    last.calls # <<>> => user_data[last.user] = None

\* C6 (as claimed): when the OCR or the PDF extraction fails or yields no
\* text, the model is not called.
C6_EmptyExtractionNeverDispatched ==
    (last.handler = "message" /\ ExtractionEmpty(last)) => last.calls = <<>>

\* C7: a tap of the mode that the previous tap of the same session stored
\* changes no stored mode, starts nothing and calls nothing.
C7_RepeatedTapIdempotent ==
    [][\A u \in Users, d \in CallbackData :
          (CallbackQuery(u, d) /\ last.handler = "callback" /\ last.user = u /\ last.mode = d)
              => (user_data' = user_data /\ tasks' = tasks /\ last'.calls = <<>>)]_vars

C7_Witness ==
    /\ last.handler = "callback"
    /\ last.prev = "same callback"
    /\ Truthy(last.mode)
    /\ user_data[last.user] = last.mode

\* C8: a call of the model whose backend raises returns a string that starts
\* with the error prefix, which no other result does; the handler replies
\* with that string last and ends without an exception.
C8_BackendFailureBecomesErrorString ==
    \A k \in 1..Len(last.calls) :
        LET c == last.calls[k]
        IN /\ IsErrorMarker(c.result) <=> c.backend.raises
           /\ c.backend.raises =>
                 /\ last.raised = None
                 /\ last.pc = "done"
                 /\ last.replies[Len(last.replies)] = c.result

C8_Witness ==
    /\ last.calls # <<>>
    /\ last.calls[1].backend.raises
    /\ last.replies[Len(last.replies)] = ErrorPrefix \o " generated"

\* C9 (as claimed): an extraction helper that meets a failure at any step
\* returns the empty string and lets no exception reach message_handler.
C9_ExtractorFailureIsEmptyResult ==
    (last.kind \in {"photo", "document"} /\ last.outcome.step \notin {"none", "n/a"}) =>
        /\ last.raised = None
        /\ last.text = ""

IsSpace(c) == c \in {" ", "\n", "\t", "\r"}

RECURSIVE LStrip(_)
LStrip(s) == IF s # "" /\ IsSpace(SubSeq(s, 1, 1)) THEN LStrip(SubSeq(s, 2, Len(s))) ELSE s

RECURSIVE RStrip(_)
RStrip(s) == IF s # "" /\ IsSpace(SubSeq(s, Len(s), Len(s))) THEN RStrip(SubSeq(s, 1, Len(s) - 1)) ELSE s

NonEmptyText(x) == x # ""

\* the text the claim gives for the pages of a PDF
TrimmedJoin(pages) ==
    LET texts == [k \in 1..Len(pages) |-> PageText(pages[k])]
    IN LStrip(RStrip(Join(SelectSeq(texts, NonEmptyText), "\n\n")))

\* C10 (as claimed): the text extracted from a PDF with some text is the
\* texts of its non-empty pages, in order, joined by a blank line and trimmed.
C10_PdfTextIsTrimmedJoin ==
    (last.kind = "document" /\ last.outcome.step = "none" /\ TrimmedJoin(last.outcome.pages) # "") =>
        last.text = TrimmedJoin(last.outcome.pages)

\* a handler of user u is suspended at an extraction await
Suspended(u) == \E i \in Slots : tasks[i].pc # "idle" /\ tasks[i].user = u

\* C11 (as claimed): the handling of an event of a session (a mode tap or a
\* message) starts only when no handler of that session is suspended.
C11_SessionEventsOneAtATime ==
    [][\A u \in Users :
          ((\E d \in CallbackData : CallbackQuery(u, d))
           \/ (\E m \in Messages : \E b \in BackendsFor(u, m) : MessageReceive(u, m, b)))
              => ~Suspended(u)]_vars

\* C12: the stored mode of a user changes only in a mode tap of that user; a
\* message handler takes the mode stored for its own user when it starts, and
\* the model is called with that mode when it dispatches at once or resumes.
C12_SessionsIsolated ==
    [][/\ \A u \in Users :
             user_data'[u] # user_data[u] => \E d \in CallbackData : CallbackQuery(u, d)
       /\ \A i \in Slots :
             /\ (tasks[i].pc = "idle" /\ tasks'[i].pc # "idle")
                   => tasks'[i].mode = user_data[tasks'[i].user]
             /\ (tasks[i].pc # "idle" /\ tasks'[i].pc = "idle")
                   => /\ last'.user = tasks[i].user
                      /\ \A k \in 1..Len(last'.calls) : last'.calls[k].mode = tasks[i].mode
       /\ (last' # last /\ last'.kind = "text")
             => \A k \in 1..Len(last'.calls) : last'.calls[k].mode = user_data[last'.user]
      ]_vars

\* two users with different stored modes, one of them served with its own
C12_Witness ==
    \E u, v \in Users :
        /\ Truthy(user_data[u]) /\ Truthy(user_data[v])
        /\ user_data[u] # user_data[v]
        /\ last.user = u
        /\ last.calls # <<>>
        /\ last.calls[1].mode = user_data[u]

\* C13 (as claimed): when an extraction helper has returned or raised, the
\* temporary file it created is removed (a helper whose get_file raises
\* created none).
C13_TempFileRemoved ==
    (last.kind \in {"photo", "document"} /\ last.outcome.step # "n/a") =>
        last.tmp = IF last.outcome.step = "get_file" THEN "none" ELSE "removed"

\* C14: a malformed payload is answered with {"ok": false} and no exception;
\* no handler replies or calls the model for it, and the stored modes and
\* the suspended handlers stay as they are.
C14_MalformedUpdateDropped ==
    [][\A p \in MalformedPayloads :
          WebhookMalformed(p) =>
              /\ last'.response = OkFalse
              /\ last'.raised = None
              /\ last'.replies = <<>>
              /\ last'.calls = <<>>
              /\ user_data' = user_data
              /\ tasks' = tasks]_vars

\* a malformed payload arrives while a mode is stored and a dispatch suspended
C14_Witness ==
    /\ last.handler = "webhook"
    /\ last.response = OkFalse
    /\ \E i \in Slots : tasks[i].pc # "idle" /\ Truthy(user_data[tasks[i].user])

\* C15 (as claimed): a generated text longer than the inline limit is sent
\* as one attachment named after the mode and not as a message; a text within
\* the limit is sent as a message.
C15_LongOutputAsAttachment ==
    \A k \in 1..Len(last.calls) :
        LET r == last.calls[k].result
        IN IF Len(r) > InlineLimit
           THEN /\ last.documents = <<[filename |-> last.mode \o ".txt", content |-> r]>>
                /\ \A j \in 1..Len(last.replies) : last.replies[j] # r
           ELSE /\ last.replies[Len(last.replies)] = r
                /\ last.documents = <<>>

\* the bytes a document's file may hold, and the text left of them by a
\* UTF-8 decode that ignores undecodable bytes (255 is never part of UTF-8;
\* the other bytes here are ASCII)
DocumentBodies == {<<>>, <<255>>, <<79, 115>>, <<79, 255, 115>>}

DecodeIgnoring(bytes) == SelectSeq(bytes, LAMBDA b : b < 128)

\* the handler, of which t is the record at its first await or at its end,
\* took the PDF branch: it waits for the extraction, or has answered that
\* pdfplumber is missing
PdfPathTaken(t) ==
    \/ t.pc = "pdf"
    \/ /\ t.pc = "done"
       /\ t.replies = <<"PDF text extraction is not available on this instance (pdfplumber missing).">>

\* C16 (as claimed): with a mode stored, a document takes the PDF path
\* exactly when its MIME type or its file-name suffix says PDF; any other
\* document is decoded as UTF-8 and, if the decoded text is not empty, is
\* dispatched once under the stored mode, while an empty decode dispatches
\* nothing.
C16_DocumentRouting ==
    [][\A u \in Users : \A m \in {x \in Messages : x.kind = "document"} :
       \A b \in BackendsFor(u, m) : \A body \in DocumentBodies :
          (Truthy(user_data[u]) /\ MessageReceive(u, m, b)) =>
              IF IsPdfDocument(m.mime, m.file_name) THEN PdfPathTaken(message_handler(u, m, b))
              ELSE /\ ~PdfPathTaken(message_handler(u, m, b))
                   /\ last'.kind = "document"
                   /\ IF DecodeIgnoring(body) # <<>>
                      THEN /\ Len(last'.calls) = 1
                           /\ last'.calls[1].mode = user_data[u]
                      ELSE last'.calls = <<>>]_vars

\* C17 (as claimed): the mode stored for a user is absent or one of
\* flashcards, notes, quiz, and every mode passed to call_generative_model is
\* one of the three, whatever callback data arrives.
C17_ModeAlwaysEnumerated ==
    /\ \A u \in Users : user_data[u] \in Modes \cup {None}
    /\ \A i \in Slots : tasks[i].pc # "idle" => tasks[i].mode \in Modes
    /\ \A k \in 1..Len(last.calls) : last.calls[k].mode \in Modes

\* the call was made with the mode m, named in the prompt and passed as the
\* mode argument
CalledUnder(call, m) ==
    /\ call.mode = m
    /\ StartsWith(call.prompt, "Mode: " \o Str(m) \o "\n")

\* C18: a dispatch uses the mode that was stored when message_handler began
\* to handle the content, in the prompt and as the argument of the call alike;
\* a waiting handler keeps its user and its mode from await to await, and a
\* step that changes a stored mode leaves every waiting handler as it is.
C18_DispatchUsesModeReadAtStart ==
    [][/\ \A i \in Slots :
            /\ (tasks[i].pc = "idle" /\ tasks'[i].pc # "idle")
                  => tasks'[i].mode = user_data[tasks'[i].user]
            /\ (tasks[i].pc # "idle" /\ tasks'[i].pc # "idle")
                  => (tasks'[i].user = tasks[i].user /\ tasks'[i].mode = tasks[i].mode)
            /\ (tasks[i].pc # "idle" /\ tasks'[i].pc = "idle")
                  => \A k \in 1..Len(last'.calls) : CalledUnder(last'.calls[k], tasks[i].mode)
       /\ (last' # last /\ tasks' = tasks)
             => \A k \in 1..Len(last'.calls) : CalledUnder(last'.calls[k], user_data[last'.user])
       /\ user_data' # user_data => tasks' = tasks
      ]_vars

\* a photo or PDF was dispatched under the mode read at its start although
\* the user had tapped another mode in the meantime
C18_Witness ==
    /\ last.kind \in {"photo", "document"}
    /\ Len(last.calls) = 1
    /\ last.calls[1].mode \in Modes
    /\ user_data[last.user] \in Modes \ {last.calls[1].mode}

\* C19: content that arrives while no mode is stored is answered with the
\* mode keyboard and kept nowhere: the handler ends at once, the stored modes
\* and the waiting handlers are as before, no handler ever waits or calls the
\* model without a mode read at its start, and a mode tap calls nothing.
C19_UnmodedContentDiscarded ==
    [][/\ \A u \in {v \in Users : ~Truthy(user_data[v])} :
          \A m \in {x \in Messages : x.kind # "edited_message"} :
             MessageReceive(u, m, NoBackend) =>
                 /\ user_data' = user_data
                 /\ tasks' = tasks
                 /\ last'.pc = "done"
                 /\ last'.text = None
                 /\ last'.calls = <<>>
                 /\ last'.replies = <<KeyboardPrompt>>
       /\ \A i \in Slots : tasks'[i].pc # "idle" => Truthy(tasks'[i].mode)
       /\ last'.calls # <<>> => Truthy(last'.mode)
       /\ \A u \in Users : \A d \in CallbackData :
             CallbackQuery(u, d) => (last'.calls = <<>> /\ tasks' = tasks)
      ]_vars

\* a mode was selected right after content of the same user had been
\* discarded, and nothing was sent to the model
C19_Witness ==
    /\ last.handler = "callback"
    /\ last.prev = "content without mode"
    /\ last.mode \in Modes
    /\ last.calls = <<>>

\* C20: a handler for an update that carries a message has sent at least one
\* reply when it finishes, and also before it waits for an extraction.
C20_EveryMessageAnswered ==
    /\ (last.handler = "message" /\ last.kind # "edited_message") => Len(last.replies) >= 1
    /\ \A i \in Slots : tasks[i].pc # "idle" => Len(tasks[i].replies) >= 1

\* a photo sent with no mode stored was answered with the keyboard
C20_Witness ==
    /\ last.handler = "message"
    /\ last.kind = "photo"
    /\ ~Truthy(last.mode)
    /\ last.replies = <<KeyboardPrompt>>

====
